---- MODULE Spec2Model ----
(***************************************************************************)
(* Content-based movie recommender (src/set_up/main.py).                   *)
(*                                                                         *)
(* The model follows load_and_process_data() from the two CSV tables to    *)
(* the item table new_df, the count matrix vectors and the cosine          *)
(* similarity matrix, and recommend() on the built model.  Text is         *)
(* modelled as sequences of one-character strings, so that strip, replace, *)
(* split, join and lower are computed.  A similarity value s in [0,1] is   *)
(* stored as the reduced fraction of s^2 (cosines of count vectors are     *)
(* non-negative, so the order and equality of the squares are the order    *)
(* and equality of the cosines); arithmetic is exact, floating-point       *)
(* rounding of the cosine is not modelled.                                 *)
(***************************************************************************)
EXTENDS Integers, Sequences, FiniteSets, TLC

VARIABLES movies_csv, credits_csv, pc, error, new_df, vectors, similarity, last,
          obj, L

vars == <<movies_csv, credits_csv, pc, error, new_df, vectors, similarity, last,
          obj, L>>

(***************************************************************************)
(* Bounds of the model                                                     *)
(***************************************************************************)
MaxMovies == 2      \* rows of movies.csv
MaxCredits == 2     \* rows of credits.csv
MaxN == 3           \* largest n_recommendations asked for
MaxCrew == 3        \* records of a crew field given to fetch_director alone

(***************************************************************************)
(* Program constants                                                       *)
(***************************************************************************)
TopCast == 3            \* convert_top3_cast: "if ct != 3"
max_features == 5000    \* CountVectorizer(max_features=5000, ...)

(***************************************************************************)
(* Python str operations on sequences of characters                        *)
(***************************************************************************)
RECURSIVE lstrip(_)
lstrip(s) == IF s # <<>> /\ Head(s) = " " THEN lstrip(Tail(s)) ELSE s

RECURSIVE rstrip(_)
rstrip(s) ==
    IF s # <<>> /\ s[Len(s)] = " " THEN rstrip(SubSeq(s, 1, Len(s) - 1)) ELSE s

\* str.strip()
strip(s) == rstrip(lstrip(s))

\* str.replace(" ", "")
replace_spaces(s) == SelectSeq(s, LAMBDA c : c # " ")

lower_char(c) ==
    CASE c = "S" -> "s"
      [] c = "O" -> "o"
      [] c = "L" -> "l"
      [] OTHER -> c

\* str.lower()
lower(s) == [i \in 1..Len(s) |-> lower_char(s[i])]

RECURSIVE split_acc(_, _, _)
split_acc(s, cur, out) ==
    IF s = <<>>
    THEN IF cur = <<>> THEN out ELSE Append(out, cur)
    ELSE IF Head(s) = " "
         THEN split_acc(Tail(s), <<>>, IF cur = <<>> THEN out ELSE Append(out, cur))
         ELSE split_acc(Tail(s), Append(cur, Head(s)), out)

\* str.split(): split on runs of whitespace, no empty words
split(s) == split_acc(s, <<>>, <<>>)

RECURSIVE join(_)
\* " ".join(words)
join(words) ==
    IF words = <<>> THEN <<>>
    ELSE IF Len(words) = 1 THEN words[1]
    ELSE words[1] \o <<" ">> \o join(Tail(words))

(***************************************************************************)
(* CSV cells.  A cell is missing (NaN), text that ast.literal_eval cannot   *)
(* turn into a list of dicts ("bad"), a list of dicts ("list") free text    *)
(* ("text") or a number ("scalar").  A dict holds each key as a 0- or 1-element sequence:    *)
(* <<>> when the key is absent.                                            *)
(***************************************************************************)
NaN == [kind |-> "NaN", recs |-> <<>>, text |-> <<>>]
Bad == [kind |-> "bad", recs |-> <<>>, text |-> <<>>]
List(recs) == [kind |-> "list", recs |-> recs, text |-> <<>>]
Text(s) == [kind |-> "text", recs |-> <<>>, text |-> s]
Scalar(v) == [kind |-> "scalar", recs |-> <<>>, text |-> <<v>>]

Rec(name, job) == [name |-> name, job |-> job]

\* dict.get("name", "")
get_name(i) == IF i.name = <<>> THEN <<>> ELSE i.name[1]

(***************************************************************************)
(* Helper functions, lines 27-72                                           *)
(***************************************************************************)
\* convert(obj): every record's stripped name, in order
convert(o) == [k \in 1..Len(o.recs) |-> strip(get_name(o.recs[k]))]

\* convert_top3_cast(obj): the names of the first three records
convert_top3_cast(o) ==
    [k \in 1..(IF Len(o.recs) < TopCast THEN Len(o.recs) ELSE TopCast)
        |-> strip(get_name(o.recs[k]))]

\* the record at which the loop of fetch_director breaks: 0 when there is none
first_director(recs) ==
    IF \E k \in 1..Len(recs) : recs[k].job = <<"Director">>
    THEN CHOOSE k \in 1..Len(recs) :
            /\ recs[k].job = <<"Director">>
            /\ \A j \in 1..(k - 1) : recs[j].job # <<"Director">>
    ELSE 0

\* fetch_director without its test "if name:"
name_truthy_always(name) == TRUE

\* the test "if name:" of fetch_director
name_truthy(name) == name # <<>>

\* fetch_director(obj)
fetch_director(o) ==
    LET k == first_director(o.recs) IN
    IF k = 0 THEN <<>>
    ELSE LET name == strip(get_name(o.recs[k])) IN
         IF name_truthy(name) THEN <<name>> ELSE <<>>

\* the members of sklearn's ENGLISH_STOP_WORDS among the words the corpus
\* pools below can spell
ENGLISH_STOP_WORDS == { <<"o", "f">> }

\* stem(text): drop the stop words of text.split(), lowercased, and re-join
stem(text) ==
    join(SelectSeq([k \in 1..Len(split(text)) |-> lower(split(text)[k])],
                   LAMBDA w : w \notin ENGLISH_STOP_WORDS))

(***************************************************************************)
(* load_and_process_data, lines 110-157: merge, dropna, tags               *)
(***************************************************************************)
RECURSIVE flatten(_)
flatten(ss) == IF ss = <<>> THEN <<>> ELSE Head(ss) \o flatten(Tail(ss))

\* one row of the merged frame; its index label is assigned by merge
merged_row(m, c) ==
    [genres |-> m.genres, id |-> m.id, keywords |-> m.keywords, title |-> m.title,
     overview |-> m.overview, cast |-> c.cast, crew |-> c.crew]

\* movies.merge(credits, on="title"): inner join, in the order of the left
\* rows and, for one left row, of the matching right rows; a fresh 0..M-1 index
merge(movies, credits) ==
    LET right(i) == SelectSeq([j \in 1..Len(credits) |-> j],
                              LAMBDA j : credits[j].title = movies[i].title)
        pairs == flatten([i \in 1..Len(movies) |->
                    [k \in 1..Len(right(i)) |->
                        merged_row(movies[i], credits[right(i)[k]])]])
    IN [k \in 1..Len(pairs) |-> [label |-> k - 1, row |-> pairs[k]]]

has_na(r) ==
    \/ r.genres.kind = "NaN" \/ r.id.kind = "NaN" \/ r.keywords.kind = "NaN"
    \/ r.overview.kind = "NaN" \/ r.cast.kind = "NaN" \/ r.crew.kind = "NaN"

\* movies.dropna(inplace=True): the rows go, the index labels of the others stay
dropna(frame) == SelectSeq(frame, LAMBDA e : ~has_na(e.row))

\* ast.literal_eval(obj) raises, or its value is no list of dicts
literal_eval_raises(cell) == cell.kind # "list"

\* one of the four .apply(convert...) calls of lines 122-125 raises on this row
apply_raises(r) ==
    \/ literal_eval_raises(r.genres) \/ literal_eval_raises(r.keywords)
    \/ literal_eval_raises(r.cast) \/ literal_eval_raises(r.crew)

no_spaces(names) == [k \in 1..Len(names) |-> replace_spaces(names[k])]

\* lines 128-157: the cleaned tag string of one row
tags(r) ==
    stem(lower(join(split(r.overview.text)
                    \o no_spaces(convert(r.genres))
                    \o no_spaces(convert(r.keywords))
                    \o no_spaces(convert_top3_cast(r.cast))
                    \o no_spaces(fetch_director(r.crew)))))

\* new_df: the index label, id, title and tags of every remaining row
make_new_df(frame) ==
    [k \in 1..Len(frame) |->
        [label |-> frame[k].label, id |-> frame[k].row.id, title |-> frame[k].row.title,
         tags |-> tags(frame[k].row)]]

(***************************************************************************)
(* lines 159-164: CountVectorizer and cosine_similarity                    *)
(***************************************************************************)
\* CountVectorizer's analyzer: lowercase, the words of two or more characters
\* (token_pattern \b\w\w+\b; the model's text holds letters and spaces only),
\* without the stop words
analyze(doc) ==
    SelectSeq(split(lower(doc)), LAMBDA w : Len(w) >= 2 /\ w \notin ENGLISH_STOP_WORDS)

count(t, toks) == Cardinality({k \in 1..Len(toks) : toks[k] = t})

terms(docs) ==
    UNION {{analyze(docs[d])[k] : k \in 1..Len(analyze(docs[d]))} : d \in 1..Len(docs)}

RECURSIVE sum(_, _)
sum(f, S) == IF S = {} THEN 0 ELSE LET x == CHOOSE x \in S : TRUE IN f[x] + sum(f, S \ {x})

\* the vocabulary of fit_transform: every term, or the max_features terms of
\* highest corpus frequency when there are more
vocabulary(docs) ==
    LET T == terms(docs)
        tf == [t \in T |-> sum([d \in 1..Len(docs) |-> count(t, analyze(docs[d]))],
                               1..Len(docs))]
    IN IF Cardinality(T) <= max_features THEN T
       ELSE CHOOSE V \in SUBSET T :
                /\ Cardinality(V) = max_features
                /\ \A t \in V, u \in T \ V : tf[t] >= tf[u]

\* cv.fit_transform(...).toarray(): one count vector per document
fit_transform(docs) ==
    LET V == vocabulary(docs)
    IN [d \in 1..Len(docs) |->
           LET toks == analyze(docs[d]) IN [t \in V |-> count(t, toks)]]

dot(u, v) == sum([t \in DOMAIN u |-> u[t] * v[t]], DOMAIN u)

RECURSIVE gcd(_, _)
gcd(a, b) == IF b = 0 THEN a ELSE gcd(b, a % b)

\* a similarity value: the square of the cosine as a reduced fraction, or NaN
NaNValue == [num |-> 0, den |-> 0]
Zero == [num |-> 0, den |-> 1]
One == [num |-> 1, den |-> 1]
frac(num, den) ==
    IF den = 0 THEN NaNValue
    ELSE [num |-> num \div gcd(num, den), den |-> den \div gcd(num, den)]

\* a row normalisation that divides by the norm as it is
handle_zeros_never(norm2) == norm2

\* sklearn normalises each row by its norm, a zero norm being replaced by 1
handle_zeros(norm2) == IF norm2 = 0 THEN 1 ELSE norm2

\* cosine_similarity(vectors)[i][j], rows and columns numbered from 0
cosine(u, v) ==
    frac(dot(u, v) * dot(u, v), handle_zeros(dot(u, u)) * handle_zeros(dot(v, v)))

cosine_similarity(X) ==
    [i \in 0..(Len(X) - 1) |-> [j \in 0..(Len(X) - 1) |-> cosine(X[i + 1], X[j + 1])]]

\* the comparison of an ascending sort (reverse=True left out)
less(a, b) == a.num * b.den < b.num * a.den

\* a > b on similarity values
greater(a, b) == a.num * b.den > b.num * a.den

(***************************************************************************)
(* recommend, lines 172-190                                                *)
(***************************************************************************)
\* recommend without its test of the title
title_in_any(movie_title, df) == TRUE

\* "movie_title not in titles" is false
title_in(movie_title, df) == \E k \in 1..Len(df) : df[k].title = movie_title

\* the position in new_df (from 1) of the first row with the title, 0 if none
first_match(movie_title, df) ==
    IF \E k \in 1..Len(df) : df[k].title = movie_title
    THEN CHOOSE k \in 1..Len(df) :
            /\ df[k].title = movie_title
            /\ \A j \in 1..(k - 1) : df[j].title # movie_title
    ELSE 0

\* new_df[new_df["title"] == movie_title].index[0]: the index LABEL of that row
index_0(movie_title, df) == df[first_match(movie_title, df)].label

\* where sorted() puts x among the pairs already placed: before the first
\* pair of strictly smaller score, so that equal scores keep their order
RECURSIVE insert(_, _)
insert(x, s) ==
    IF s = <<>> THEN <<x>>
    ELSE IF greater(x[2], Head(s)[2]) THEN <<x>> \o s
    ELSE <<Head(s)>> \o insert(x, Tail(s))

RECURSIVE sorted_acc(_, _)
sorted_acc(rest, acc) ==
    IF rest = <<>> THEN acc ELSE sorted_acc(Tail(rest), insert(Head(rest), acc))

\* sorted(list(enumerate(distances)), reverse=True, key=lambda x: x[1])
sorted_pairs(distances) ==
    sorted_acc([k \in 1..Cardinality(DOMAIN distances) |-> <<k - 1, distances[k - 1]>>],
               <<>>)

\* s[a:b] for 0 <= a <= b
slice(s, a, b) == SubSeq(s, a + 1, IF b < Len(s) THEN b ELSE Len(s))

NoResult(outcome, mi) ==
    [outcome |-> outcome, movie_index |-> mi, movies_list |-> <<>>,
     recommended_titles |-> <<>>]

\* recommend(movie_title, new_df, similarity, n_recommendations): how the call
\* ends, the matrix row it read, the item positions (from 0) it picked and
\* the titles it returns
recommend(movie_title, df, sim, n) ==
    IF ~title_in(movie_title, df) THEN NoResult("return", -1)
    ELSE IF first_match(movie_title, df) = 0 THEN NoResult("IndexError", -1)
    ELSE LET movie_index == index_0(movie_title, df) IN
         IF movie_index \notin DOMAIN sim THEN NoResult("IndexError", movie_index)
         ELSE LET picked == slice(sorted_pairs(sim[movie_index]), 1, n + 1)
                  movies_list == [k \in 1..Len(picked) |-> picked[k][1]]
              IN [outcome |-> "return", movie_index |-> movie_index,
                  movies_list |-> movies_list,
                  recommended_titles |->
                      [k \in 1..Len(movies_list) |-> df[movies_list[k] + 1].title]]

(***************************************************************************)
(* The corpus: words, cells and CSV rows the tables are drawn from         *)
(***************************************************************************)
sp == <<"s", "p">>
al == <<"a", "l">>
wr == <<"w", "r">>
lv == <<"l", "v">>
ck == <<"c", "k">>

Named(s) == Rec(<<s>>, <<>>)
Crew(s, job) == Rec(<<s>>, <<job>>)

MovieRows ==
    { \* tokens sp al sf
      [title |-> "A", id |-> Scalar("1"),
       overview |-> Text(<<"S", "p", " ", "a", "l">>),
       genres |-> List(<<Named(<<"S", " ", "f">>)>>), keywords |-> List(<<>>)],
      \* tokens sp lv wr; the second keyword has no name
      [title |-> "B", id |-> Scalar("2"),
       overview |-> Text(<<"s", "p", " ", " ", "L", "v">>),
       genres |-> List(<<>>),
       keywords |-> List(<<Named(<<" ", "w", "r", " ">>), Rec(<<>>, <<>>)>>)],
      \* no token survives: a stop word, a one-letter word, "O f" -> "of"
      [title |-> "A", id |-> Scalar("3"),
       overview |-> Text(<<"O", "f", " ", "x">>),
       genres |-> List(<<>>), keywords |-> List(<<Named(<<"O", " ", "f">>)>>)],
      \* no overview (and unparsable genres)
      [title |-> "A", id |-> Scalar("4"),
       overview |-> NaN, genres |-> Bad, keywords |-> List(<<>>)],
      \* unparsable genres
      [title |-> "B", id |-> Scalar("5"),
       overview |-> Text(ck), genres |-> Bad, keywords |-> List(<<>>)] }

CreditRows ==
    { \* tokens al lv ck (the fourth cast member is cut) and the director ck
      [title |-> "A",
       cast |-> List(<<Named(al), Named(<<"L", " ", "v">>), Named(ck), Named(wr)>>),
       crew |-> List(<<Crew(wr, "Writer"), Crew(<<" ", "c", " ", "k", " ">>, "Director"),
                      Crew(sp, "Director")>>)],
      \* no token: the first director's name is blank
      [title |-> "A", cast |-> List(<<>>),
       crew |-> List(<<Crew(<<" ">>, "Director"), Crew(sp, "Director")>>)],
      \* token sp; the crew record has no job
      [title |-> "B", cast |-> List(<<Named(sp)>>), crew |-> List(<<Named(lv)>>)],
      \* no cast
      [title |-> "A", cast |-> NaN, crew |-> List(<<>>)] }

CrewRecords ==
    { Crew(sp, "Director"), Crew(<<" ", "l", "v">>, "Director"), Crew(<<" ">>, "Director"),
      Rec(<<>>, <<"Director">>), Crew(wr, "Writer"), Named(al) }

QueryTitles == {"A", "B", "X"}

SeqsUpTo(S, n) == UNION {[1..k -> S] : k \in 0..n}

NoQuery == [title |-> "", n |-> 0] @@ NoResult("none", -1)

(***************************************************************************)
(* The program                                                             *)
(***************************************************************************)
Init ==
    /\ movies_csv \in SeqsUpTo(MovieRows, MaxMovies)
    /\ credits_csv \in SeqsUpTo(CreditRows, MaxCredits)
    /\ pc = "start"
    /\ error = "none"
    /\ new_df = <<>>
    /\ vectors = <<>>
    /\ similarity = <<>>
    /\ last = NoQuery
    /\ obj = List(<<>>)
    /\ L = <<>>

\* load_and_process_data(): an exception of a .apply() call or of
\* fit_transform ("empty vocabulary") leaves the program without a model
load_and_process_data ==
    /\ pc = "start"
    /\ LET frame == dropna(merge(movies_csv, credits_csv)) IN
       IF \E k \in 1..Len(frame) : apply_raises(frame[k].row)
       THEN /\ pc' = "failed"
            /\ error' = "literal_eval"
            /\ UNCHANGED <<new_df, vectors, similarity>>
       ELSE LET df == make_new_df(frame)
                docs == [k \in 1..Len(df) |-> df[k].tags]
            IN IF vocabulary(docs) = {}
               THEN /\ pc' = "failed"
                    /\ error' = "empty vocabulary"
                    /\ UNCHANGED <<new_df, vectors, similarity>>
               ELSE /\ pc' = "built"
                    /\ error' = "none"
                    /\ new_df' = df
                    /\ vectors' = fit_transform(docs)
                    /\ similarity' = cosine_similarity(fit_transform(docs))
    /\ UNCHANGED <<movies_csv, credits_csv, last, obj, L>>

\* a recommend that sorts the matrix row it reads in place (distances.sort())
QuerySortingInPlace(movie_title, n) ==
    /\ pc = "built"
    /\ last' = [title |-> movie_title, n |-> n]
                  @@ recommend(movie_title, new_df, similarity, n)
    /\ similarity' =
          LET r == recommend(movie_title, new_df, similarity, n).movie_index IN
          IF r \in DOMAIN similarity
          THEN [similarity EXCEPT ![r] =
                   [j \in DOMAIN similarity[r] |-> sorted_pairs(similarity[r])[j + 1][2]]]
          ELSE similarity
    /\ UNCHANGED <<movies_csv, credits_csv, pc, error, new_df, vectors, obj, L>>

\* one call recommend(movie_title, new_df, similarity, n) on the built model
Query(movie_title, n) ==
    /\ pc = "built"
    /\ last' = [title |-> movie_title, n |-> n]
                  @@ recommend(movie_title, new_df, similarity, n)
    /\ UNCHANGED <<movies_csv, credits_csv, pc, error, new_df, vectors, similarity,
                   obj, L>>

Recommend == \E movie_title \in QueryTitles, n \in 0..MaxN : Query(movie_title, n)

Next == load_and_process_data \/ Recommend

Spec == Init /\ [][Next]_vars

(***************************************************************************)
(* fetch_director alone, on every crew list of up to MaxCrew records       *)
(***************************************************************************)
InitDirector ==
    /\ obj \in {List(recs) : recs \in SeqsUpTo(CrewRecords, MaxCrew)}
    /\ L = <<>>
    /\ pc = "call"
    /\ movies_csv = <<>>
    /\ credits_csv = <<>>
    /\ error = "none"
    /\ new_df = <<>>
    /\ vectors = <<>>
    /\ similarity = <<>>
    /\ last = NoQuery

FetchDirector ==
    /\ pc = "call"
    /\ L' = fetch_director(obj)
    /\ pc' = "return"
    /\ UNCHANGED <<movies_csv, credits_csv, error, new_df, vectors, similarity, last,
                   obj>>

NextDirector == FetchDirector

SpecDirector == InitDirector /\ [][NextDirector]_vars

(***************************************************************************)
(* Vocabulary of the properties                                            *)
(***************************************************************************)
N == Len(new_df)
Positions == 0..(N - 1)

\* a call of recommend has ended in the built model
Asked == pc = "built" /\ last.outcome # "none"
Returned == pc = "built" /\ last.outcome = "return"

\* the query title is the title of some item
Known == \E p \in Positions : new_df[p + 1].title = last.title

\* the position (from 0) of the first item with the query title
OwnPos ==
    CHOOSE p \in Positions :
        /\ new_df[p + 1].title = last.title
        /\ \A q \in Positions : new_df[q + 1].title = last.title => p <= q

Picked == {last.movies_list[k] : k \in 1..Len(last.movies_list)}

\* dropna removed no row: every index label is the row's position
NoRowDropped == \A p \in Positions : new_df[p + 1].label = p

\* the positions of the items whose feature vector is all zero
ZeroItems ==
    {p \in Positions : \A t \in DOMAIN vectors[p + 1] : vectors[p + 1][t] = 0}

Positive(v) == v.num > 0 /\ v.den > 0
Above(a, b) == a.num * b.den > b.num * a.den

\* the rank (from 0) of item i in matrix row r: by descending similarity,
\* equal similarities by ascending position
Rank(r, i) ==
    Cardinality({j \in Positions :
        \/ Above(similarity[r][j], similarity[r][i])
        \/ similarity[r][j] = similarity[r][i] /\ j < i})

Min(a, b) == IF a < b THEN a ELSE b

\* the rows that remain after dropna, and those of them whose fields parse
Remaining == dropna(merge(movies_csv, credits_csv))
Parsable == SelectSeq(Remaining, LAMBDA e : ~apply_raises(e.row))

(***************************************************************************)
(* Properties                                                              *)
(***************************************************************************)
\* C1: recommend never returns the query item's own row, for a title of the
\* item table: the position of the looked-up item is not among the positions
\* picked.  Stated on the corpora from which dropna removed no row, where
\* the matrix row read is the query item's own.
C1_NeverOwnRow == (Returned /\ Known /\ NoRowDropped) => OwnPos \notin Picked

\* C2: for a title of the item table, recommend ranks the matrix row at the
\* position of the first item with that title.
C2_ReadsOwnRow ==
    (Asked /\ Known) => (last.outcome = "return" /\ last.movie_index = OwnPos)

\* C3: for a title of the item table, recommend(title, n) returns exactly
\* min(n, N-1) titles and raises no error.
C3_ExactCount ==
    (Asked /\ Known) =>
        /\ last.outcome = "return"
        /\ Len(last.recommended_titles) = Min(last.n, N - 1)

\* C4: for a title that matches no item, recommend returns the empty list
\* and raises nothing, for every n and every matrix.
C4_UnknownTitleEmpty ==
    (Asked /\ ~Known) => (last.outcome = "return" /\ last.recommended_titles = <<>>)

C4_Witness == Returned /\ ~Known /\ last.n > 0 /\ N >= 2

\* C5: the items returned are those of rank 1 .. min(n, N-1) of the query
\* item's matrix row, in rank order (descending similarity, ties by
\* ascending position), rank 0 being the skipped leading entry.
C5_RankOrder ==
    (Returned /\ Known) =>
        /\ Len(last.movies_list) = Min(last.n, N - 1)
        /\ \A k \in 1..Len(last.movies_list) : Rank(OwnPos, last.movies_list[k]) = k
        /\ last.recommended_titles =
              [k \in 1..Len(last.movies_list) |-> new_df[last.movies_list[k] + 1].title]

\* C6 as stated: a zero-vector item has similarity 0 to every other item,
\* and it is in the result of another item's query only if all of that
\* query's candidates are tied at similarity 0.  Stated on the corpora from
\* which dropna removed no row.
C6_OnlyWhenAllTiedAtZero ==
    (Returned /\ Known /\ NoRowDropped) =>
        \A z \in ZeroItems :
            /\ \A j \in Positions \ {z} : similarity[z][j] = Zero
            /\ (z # OwnPos /\ z \in Picked) =>
                   \A c \in Positions \ {OwnPos} : similarity[OwnPos][c] = Zero

\* C6 amended: a zero-vector item has similarity 0 to every item, and when
\* it is in a result, every item of positive similarity in the matrix row
\* that recommend ranked, except the skipped leading entry of that row,
\* comes before it in the result.
C6_ZeroAfterEveryPositive ==
    (Returned /\ Known) =>
        \A z \in ZeroItems :
            /\ \A j \in Positions : similarity[z][j] = Zero
            /\ \A k \in 1..Len(last.movies_list) : last.movies_list[k] = z =>
                   \A c \in Positions :
                       (Positive(similarity[last.movie_index][c])
                            /\ Rank(last.movie_index, c) # 0)
                       => \E h \in 1..(k - 1) : last.movies_list[h] = c

C6_Witness ==
    /\ Returned /\ Known /\ NoRowDropped
    /\ \E z \in (Picked \cap ZeroItems) \ {OwnPos} :
          \E c \in Picked \ {OwnPos} : Positive(similarity[OwnPos][c])

\* C7: when a field of a remaining row cannot be parsed, the build does not
\* fail on it: the row is dropped and the item table is built from exactly
\* the other rows.
C7_MalformedRowDropped ==
    (pc \in {"built", "failed"} /\ Len(Parsable) < Len(Remaining)) =>
        /\ error # "literal_eval"
        /\ pc = "built" => new_df = make_new_df(Parsable)

\* C8: in the built matrix, entry (i,j) is 0 whenever item i's or item j's
\* vector is all zero, the diagonal included, and entry (i,i) is 1 for
\* every item whose vector is not all zero.
C8_ZeroAndDiagonal ==
    pc = "built" =>
        /\ \A z \in ZeroItems : \A j \in Positions :
               similarity[z][j] = Zero /\ similarity[j][z] = Zero
        /\ \A i \in Positions \ ZeroItems : similarity[i][i] = One

C8_Witness ==
    /\ pc = "built"
    /\ ZeroItems # {}
    /\ ZeroItems # Positions

\* the records of the crew field whose job is "Director"
Directors == {k \in 1..Len(obj.recs) : obj.recs[k].job = <<"Director">>}
FirstDirector == CHOOSE k \in Directors : \A j \in Directors : k <= j
FirstDirectorName == strip(get_name(obj.recs[FirstDirector]))

\* C9 as stated: fetch_director returns the one-element list of the name of
\* the first record whose job is "Director", the empty list exactly when no
\* record has that job, and never more than one element.
C9_FirstDirectorOrNone ==
    pc = "return" =>
        /\ Len(L) <= 1
        /\ L = <<>> <=> Directors = {}
        /\ Directors # {} => L = <<FirstDirectorName>>

\* C9 amended: fetch_director returns the one-element list of the stripped
\* name of the first record whose job is "Director" when that name is not
\* empty, and the empty list exactly when no record has that job or the
\* first such record's stripped name is empty; never more than one element.
C9_FirstDirectorIfNamed ==
    pc = "return" =>
        /\ Len(L) <= 1
        /\ L = <<>> <=> (Directors = {} \/ FirstDirectorName = <<>>)
        /\ (Directors # {} /\ FirstDirectorName # <<>>) => L = <<FirstDirectorName>>

C9_Witness ==
    /\ pc = "return"
    /\ L = <<>>
    /\ \E k \in Directors : k # FirstDirector /\ strip(get_name(obj.recs[k])) # <<>>

\* C10: once the model is built, no step changes the item table or the
\* similarity matrix, and after any further queries the last query, issued
\* again on the model as it is now, gives the result it gave.
C10_ReadOnlyModel ==
    /\ [][pc = "built" =>
            /\ new_df' = new_df
            /\ similarity' = similarity
         ]_vars
    /\ [](Asked =>
            last = [title |-> last.title, n |-> last.n]
                      @@ recommend(last.title, new_df, similarity, last.n))

C10_Witness ==
    /\ Returned /\ Known
    /\ Len(last.movies_list) >= 2
    /\ last.movies_list[1] > last.movies_list[2]

====
